---------------------------- MODULE Spec2Model ----------------------------
(***************************************************************************)
(* Model of src/main.py: the template service.                             *)
(*                                                                         *)
(*   - parse_text_replacements / generate_html : the rendering engine      *)
(*   - login_for_access_token / create_access_token / get_current_user     *)
(*   - get_templates / create_template / update_template / delete_template *)
(*                                                                         *)
(* A Python str is a sequence of one-character strings; a Python dict is   *)
(* a sequence of [key, value] records in insertion order.                  *)
(***************************************************************************)
EXTENDS Integers, Sequences, FiniteSets, TLC

VARIABLES
    pc,            \* position inside the generate_html / parse handler
    template_content, \* request.template_content
    input_text,    \* request.input_text (parse_text_replacements' argument)
    li,            \* index of the line the for loop of the parser is at
    replacements,  \* the dict built by parse_text_replacements
    html_content,  \* generate_html's html_content
    gi,            \* index of the dict entry generate_html's loop is at
    count,         \* generate_html's count
    now,           \* datetime.utcnow(), in ticks
    issued,        \* tokens login has returned, with their issue time
    store,         \* the templates table: id -> [name, content]
    nextId,        \* how many identifiers uuid4 has produced
    call,          \* the last completed HTTP call: request and response
    reqs           \* concurrent requests: what each asks, where it is, its status

vars == <<pc, template_content, input_text, li, replacements, html_content, gi, count,
          now, issued, store, nextId, call, reqs>>

engineVars == <<pc, template_content, input_text, li, replacements, html_content, gi, count>>
serviceVars == <<now, issued, store, nextId, call>>
concVars == <<reqs>>

-----------------------------------------------------------------------------
(* Python str primitives                                                   *)

\* str.strip() / regex \s: the whitespace characters of the model
Whitespace == {" ", "\t"}

Min(S) == CHOOSE x \in S : \A y \in S : x <= y

Max(S) == CHOOSE x \in S : \A y \in S : x >= y

\* str.strip(): drop leading and trailing whitespace
Strip(s) ==
    LET keep == {i \in 1..Len(s) : s[i] \notin Whitespace}
    IN  IF keep = {} THEN <<>> ELSE SubSeq(s, Min(keep), Max(keep))

\* s[i:].startswith(p), i counted from 1
StartsWithAt(s, p, i) ==
    /\ i >= 1
    /\ i + Len(p) - 1 <= Len(s)
    /\ \A j \in 1..Len(p) : s[i + j - 1] = p[j]

\* str.split('\n'): always at least one piece
RECURSIVE SplitFrom(_, _, _)
SplitFrom(s, i, cur) ==
    IF i > Len(s) THEN <<cur>>
    ELSE IF s[i] = "\n" THEN <<cur>> \o SplitFrom(s, i + 1, <<>>)
    ELSE SplitFrom(s, i + 1, Append(cur, s[i]))

SplitLines(s) == SplitFrom(s, 1, <<>>)

\* `k in s` for str
Contains(s, k) == \E i \in 1..(Len(s) + 1) : StartsWithAt(s, k, i)

\* a replace that stops after the first occurrence: str.replace(k, v, 1)
ReplaceOnce(s, k, v) ==
    LET hits == {i \in 1..(Len(s) + 1) : StartsWithAt(s, k, i)}
    IN  IF hits = {} THEN s
        ELSE SubSeq(s, 1, Min(hits) - 1) \o v \o SubSeq(s, Min(hits) + Len(k), Len(s))

\* str.replace(k, v): scan left to right, replace each occurrence found and
\* continue after it; an empty k matches before every character and at the end
RECURSIVE ReplaceFrom(_, _, _, _)
ReplaceFrom(s, k, v, i) ==
    IF k = <<>>
    THEN IF i > Len(s) THEN v ELSE v \o <<s[i]>> \o ReplaceFrom(s, k, v, i + 1)
    ELSE IF i > Len(s) THEN <<>>
    ELSE IF StartsWithAt(s, k, i) THEN v \o ReplaceFrom(s, k, v, i + Len(k))
    ELSE <<s[i]>> \o ReplaceFrom(s, k, v, i + 1)

Replace(s, k, v) == ReplaceFrom(s, k, v, 1)

-----------------------------------------------------------------------------
(* parse_text_replacements                                                 *)

\* the set literal of lines 122-126
ignored_keys ==
    { <<"S","P","A","N">>, <<"D","I","V">>, <<"P">>, <<"H","1">>,
      <<"H","2">>, <<"H","3">>, <<"H","4">>, <<"H","5">>, <<"H","6">>,
      <<"A">>, <<"I","M","G">>, <<"U","L">>, <<"L","I">>,
      <<"S","E","C","T","I","O","N">>, <<"H","E","A","D","E","R">>,
      <<"F","O","O","T","E","R">>, <<"B","O","D","Y">>,
      <<"H","T","M","L">>, <<"S","C","R","I","P","T">>,
      <<"S","T","Y","L","E">>, <<"B","R">>, <<"H","R">> }

Open == <<"*", "*">>

Marker == <<":", "*", "*">>

\* a greedy group (.+) in place of the lazy one: the longest key that is
\* followed by ":**"
GreedyKeyLen(line, n) ==
    LET ok == {m \in n..Len(line) : StartsWithAt(line, Marker, 3 + m)}
    IN  IF ok = {} THEN 0 ELSE Max(ok)

\* The lazy group (.+?) of r'^\*\*(.+?):\*\*\s*(.*)': the regex engine tries
\* key lengths 1, 2, ... and stops at the first one followed by ":**".
\* 0 when no length works (no match).
RECURSIVE LazyKeyLen(_, _)
LazyKeyLen(line, n) ==
    IF 2 + n + Len(Marker) > Len(line) THEN 0
    ELSE IF StartsWithAt(line, Marker, 3 + n) THEN n
    ELSE LazyKeyLen(line, n + 1)

\* re.search(r'^\*\*(.+?):\*\*\s*(.*)', line): [matched, g1, g2]
RECURSIVE SkipSpace(_, _)
SkipSpace(line, i) ==
    IF i <= Len(line) /\ line[i] \in Whitespace THEN SkipSpace(line, i + 1) ELSE i

re_search(line) ==
    IF ~StartsWithAt(line, Open, 1) THEN [matched |-> FALSE, g1 |-> <<>>, g2 |-> <<>>]
    ELSE LET n == LazyKeyLen(line, 1)
         IN  IF n = 0 THEN [matched |-> FALSE, g1 |-> <<>>, g2 |-> <<>>]
             ELSE LET rest == SkipSpace(line, 3 + n + Len(Marker))
                  IN  [matched |-> TRUE,
                       g1 |-> SubSeq(line, 3, 2 + n),
                       g2 |-> SubSeq(line, rest, Len(line))]

\* an assignment that forgets the key's place: the entry is removed and put
\* back last
DictSetMoveToEnd(d, k, v) ==
    Append(SelectSeq(d, LAMBDA e : e.key # k), [key |-> k, value |-> v])

\* replacements[key] = value on a dict: a new key goes last, a known key keeps
\* its place and takes the new value
DictSet(d, k, v) ==
    IF \E i \in 1..Len(d) : d[i].key = k
    THEN [i \in 1..Len(d) |-> IF d[i].key = k THEN [key |-> k, value |-> v] ELSE d[i]]
    ELSE Append(d, [key |-> k, value |-> v])

\* one iteration of `for line in lines:` (lines 127-134)
ParseLine(d, rawline) ==
    LET line == Strip(rawline)
        m == re_search(line)
    IN  IF ~m.matched THEN d
        ELSE LET key == Strip(m.g1)
                 value == Strip(m.g2)
             IN  IF key \in ignored_keys THEN d ELSE DictSet(d, key, value)

RECURSIVE ParseLines(_, _, _)
ParseLines(d, lines, i) ==
    IF i > Len(lines) THEN d ELSE ParseLines(ParseLine(d, lines[i]), lines, i + 1)

parse_text_replacements(text) == ParseLines(<<>>, SplitLines(text), 1)

-----------------------------------------------------------------------------
(* HTTP calls: the request fields and the response fields of the last call *)

\* a request without an Authorization header
NoToken == [sig |-> "none", sub |-> "none", exp |-> 0]

BaseCall ==
    [op |-> "none", at |-> 0, token |-> NoToken, username |-> "", password |-> "",
     id |-> 0, name |-> "", content |-> "",
     template_content |-> <<>>, input_text |-> <<>>,
     status |-> 0, detail |-> "", body |-> {}, access_token |-> NoToken,
     token_type |-> "", generated_html |-> <<>>, replacements_count |-> 0]

-----------------------------------------------------------------------------
(* Inputs of the parser specification                                      *)

\* how many pieces an input text of SpecParse is made of
MaxTokens == 5

\* the pieces: the two markers, whitespace, an excluded tag name ("A"), an
\* ordinary letter, a line break, and the characters of a broken marker
ParseTokens ==
    { <<"*", "*">>, <<":", "*", "*">>, <<" ">>, <<"A">>, <<"a">>, <<"\n">>,
      <<"*">>, <<":">> }

RECURSIVE TokenTexts(_)
TokenTexts(n) ==
    IF n = 0 THEN {<<>>}
    ELSE LET prev == TokenTexts(n - 1)
         IN  prev \cup {t \o tok : t \in prev, tok \in ParseTokens}

EngineIdle ==
    /\ pc = "idle"
    /\ template_content = <<>>
    /\ input_text = <<>>
    /\ li = 0
    /\ replacements = <<>>
    /\ html_content = <<>>
    /\ gi = 0
    /\ count = 0

ServiceIdle ==
    /\ now = 0
    /\ issued = {}
    /\ store = <<>>
    /\ nextId = 0
    /\ call = BaseCall

ConcIdle == reqs = <<>>

-----------------------------------------------------------------------------
(* SpecParse: parse_text_replacements, one loop iteration per step         *)

InitParse ==
    /\ pc = "parse"
    /\ template_content = <<>>
    /\ input_text \in TokenTexts(MaxTokens)
    /\ li = 1
    /\ replacements = <<>>
    /\ html_content = <<>>
    /\ gi = 0
    /\ count = 0
    /\ ServiceIdle
    /\ ConcIdle

\* lines 127-134: the body of `for line in lines:`
ParseStep ==
    /\ pc = "parse"
    /\ li <= Len(SplitLines(input_text))
    /\ replacements' = ParseLine(replacements, SplitLines(input_text)[li])
    /\ li' = li + 1
    /\ UNCHANGED <<pc, template_content, input_text, html_content, gi, count>>
    /\ UNCHANGED <<serviceVars, concVars>>

\* line 135: return replacements
ParseReturn ==
    /\ pc = "parse"
    /\ li > Len(SplitLines(input_text))
    /\ pc' = "parsed"
    /\ UNCHANGED <<template_content, input_text, li, replacements, html_content, gi, count>>
    /\ UNCHANGED <<serviceVars, concVars>>

NextParse == ParseStep \/ ParseReturn

SpecParse == InitParse /\ [][NextParse]_vars

-----------------------------------------------------------------------------
(* SpecGen: generate_html, from the request to the response                *)

\* how many annotated lines an input text of SpecGen has
MaxLines == 3

\* how long a template body of SpecGen is
MaxTemplateLen == 2

\* placeholder names written in the input: two letters, a doubled letter
\* (overlapping occurrences) and a blank name
GenKeys == { <<"B">>, <<"C">>, <<"B", "B">>, <<" ">> }

GenValues == { <<"C">>, <<"D">> }

GenLines == { Open \o k \o Marker \o <<" ">> \o v : k \in GenKeys, v \in GenValues }

RECURSIVE GenTexts(_)
GenTexts(n) ==
    IF n = 0 THEN {<<>>}
    ELSE LET prev == GenTexts(n - 1)
         IN  prev \cup GenLines \cup
             {t \o <<"\n">> \o l : t \in prev \ {<<>>}, l \in GenLines}

TemplateChars == {"B", "C"}

RECURSIVE Templates(_)
Templates(n) ==
    IF n = 0 THEN {<<>>}
    ELSE LET prev == Templates(n - 1)
         IN  prev \cup {Append(t, c) : t \in prev, c \in TemplateChars}

InitGen ==
    /\ pc = "start"
    /\ template_content \in Templates(MaxTemplateLen)
    /\ input_text \in GenTexts(MaxLines)
    /\ li = 0
    /\ replacements = <<>>
    /\ html_content = <<>>
    /\ gi = 0
    /\ count = 0
    /\ ServiceIdle
    /\ ConcIdle

\* `for key, value in replacements.items()`: the i-th entry in insertion order
Entry(d, i) == d[i]

\* lines 194-197: copy the template, parse the input, reset the counter
GenParse ==
    /\ pc = "start"
    /\ html_content' = template_content
    /\ replacements' = parse_text_replacements(input_text)
    /\ count' = 0
    /\ gi' = 1
    /\ pc' = "render"
    /\ UNCHANGED <<template_content, input_text, li>>
    /\ UNCHANGED <<serviceVars, concVars>>

\* lines 199-201: what one loop iteration does to (html_content, count)
ApplyEntry(html, n, e) ==
    IF Contains(html, e.key)
    THEN [html |-> Replace(html, e.key, e.value), count |-> n + 1]
    ELSE [html |-> html, count |-> n]

\* lines 198-201: one iteration of the loop over replacements.items()
GenStep ==
    /\ pc = "render"
    /\ gi <= Len(replacements)
    /\ LET r == ApplyEntry(html_content, count, Entry(replacements, gi))
       IN  /\ html_content' = r.html
           /\ count' = r.count
    /\ gi' = gi + 1
    /\ UNCHANGED <<pc, template_content, input_text, li, replacements>>
    /\ UNCHANGED <<serviceVars, concVars>>

\* lines 203-206: the response
GenReturn ==
    /\ pc = "render"
    /\ gi > Len(replacements)
    /\ pc' = "done"
    /\ UNCHANGED <<template_content, input_text, li, replacements, html_content, gi, count>>
    /\ UNCHANGED <<serviceVars, concVars>>

NextGen == GenParse \/ GenStep \/ GenReturn

SpecGen == InitGen /\ [][NextGen]_vars

-----------------------------------------------------------------------------
(* Configuration, tokens and the guard                                     *)

\* line 27: os.getenv("ADMIN_USERNAME", "admin")
ADMIN_USERNAME_ENV == "admin"

\* line 28: os.getenv("ADMIN_PASSWORD", "password123")
ADMIN_PASSWORD_ENV == "password123"

\* line 24
ACCESS_TOKEN_EXPIRE_MINUTES == 60 * 24

\* the clock datetime.utcnow() counts in ticks, this many to a second
TicksPerSecond == 2

\* how many ticks the clock advances one at a time after each long wait
MaxTicks == 4

\* how many token lifetimes the clock is let to run
MaxLifetimes == 2

\* timedelta(minutes=m), in ticks
timedelta(m) == m * 60 * TicksPerSecond

\* timegm(d.utctimetuple()): a datetime cut to whole seconds
timegm(d) == d \div TicksPerSecond

\* jwt.encode(to_encode, SECRET_KEY, algorithm=ALGORITHM): the token carries
\* the claims, its exp as a whole number of seconds, signed with SECRET_KEY
jwt_encode(sub, expire) == [sig |-> "valid", sub |-> sub, exp |-> timegm(expire)]

\* lines 92-100, called with expires_delta
create_access_token(sub, expires_delta, t) ==
    LET expire == t + expires_delta
    IN  [token |-> jwt_encode(sub, expire), iat |-> t, expire |-> expire]

\* a decode that does not look at exp
jwt_decode_no_exp(token, t) ==
    IF token.sig # "valid" THEN [ok |-> FALSE, sub |-> "none"]
    ELSE [ok |-> TRUE, sub |-> token.sub]

\* jwt.decode(token, SECRET_KEY, algorithms=[ALGORITHM]) at time t: a JWTError
\* for a bad signature and for an exp earlier than the current whole second
jwt_decode(token, t) ==
    IF token.sig # "valid" THEN [ok |-> FALSE, sub |-> "none"]
    ELSE IF token.exp < timegm(t) THEN [ok |-> FALSE, sub |-> "none"]
    ELSE [ok |-> TRUE, sub |-> token.sub]

\* a guard that lets every caller in
accept_anyone(token, t) == [ok |-> TRUE, username |-> ADMIN_USERNAME_ENV, detail |-> ""]

\* lines 71 and 102-117: oauth2_scheme, then get_current_user
get_current_user(token, t) ==
    IF token = NoToken
    THEN [ok |-> FALSE, username |-> "none", detail |-> "Not authenticated"]
    ELSE LET payload == jwt_decode(token, t)
         IN  IF ~payload.ok \/ payload.sub = "none" \/ payload.sub # ADMIN_USERNAME_ENV
             THEN [ok |-> FALSE, username |-> "none",
                   detail |-> "Could not validate credentials"]
             ELSE [ok |-> TRUE, username |-> payload.sub, detail |-> ""]

\* a check that fails only when both fields are wrong
BothWrong(username, password) ==
    username # ADMIN_USERNAME_ENV /\ password # ADMIN_PASSWORD_ENV

\* line 142: the condition of the 401 of login_for_access_token
CredentialsRejected(username, password) ==
    username # ADMIN_USERNAME_ENV \/ password # ADMIN_PASSWORD_ENV

-----------------------------------------------------------------------------
(* Responses and rows                                                      *)

\* the HTTPException of lines 103-107 and 143-147
Unauthorized(req, detail) == [req EXCEPT !.status = 401, !.detail = detail]

\* the HTTPException of lines 174 and 186
NotFound(req) == [req EXCEPT !.status = 404, !.detail = "Template not found"]

\* a row of the templates table as the response model Template shows it
Row(st, i) == [id |-> i, name |-> st[i].name, content |-> st[i].content]

\* lines 172-173 and 184-185: .filter(TemplateDB.id == template_id).first()
found(st, template_id) == template_id \in DOMAIN st

\* line 161: uuid.uuid4(), the (n+1)-th identifier generated
uuid4(n) == n + 1

\* an update that writes the name and forgets the content
assign_name_only(old, name, content) == [name |-> name, content |-> old.content]

\* lines 176-177: the assignments of update_template
assign_fields(old, name, content) == [name |-> name, content |-> content]

\* the table with row i set to r (an INSERT or an UPDATE of one row)
WithRow(st, i, r) == [j \in DOMAIN st \cup {i} |-> IF j = i THEN r ELSE st[j]]

\* a DELETE that is never committed
RowKept(st, i) == st

\* the table without row i (a DELETE of one row)
WithoutRow(st, i) == [j \in DOMAIN st \ {i} |-> st[j]]

\* lines 197-201 as a whole: the loop over replacements.items()
RECURSIVE RenderFrom(_, _, _)
RenderFrom(r, d, i) ==
    IF i > Len(d) THEN r
    ELSE RenderFrom(ApplyEntry(r.html, r.count, Entry(d, i)), d, i + 1)

-----------------------------------------------------------------------------
(* Spec: the template store and generate_html behind the guard             *)

\* how many identifiers uuid4 is asked for
MaxIds == 2

\* the bodies of the create requests
CreateInputs == { [name |-> "n1", content |-> "c1"] }

\* the bodies of the update requests
UpdateInputs == { [name |-> "n2", content |-> "c2"], [name |-> "n3", content |-> "c3"] }

\* the token login returns at time 0, and what a caller may present instead:
\* a forged signature, another subject, no token
AdminToken ==
    create_access_token(ADMIN_USERNAME_ENV, timedelta(ACCESS_TOKEN_EXPIRE_MINUTES), 0).token

PresentedTokens ==
    { AdminToken,
      [AdminToken EXCEPT !.sig = "invalid"],
      [AdminToken EXCEPT !.sub = "guest"],
      NoToken }

GenerationRequests ==
    { [template_content |-> <<"B", "B">>,
       input_text |-> Open \o <<"B">> \o Marker \o <<" ", "C">>] }

Init ==
    /\ EngineIdle
    /\ now = 0
    /\ issued = {}
    /\ store = <<>>
    /\ nextId = 0
    /\ call = BaseCall
    /\ ConcIdle

\* the clock runs on by one token lifetime
Elapse ==
    /\ now \div timedelta(ACCESS_TOKEN_EXPIRE_MINUTES) < MaxLifetimes
    /\ now' = now + timedelta(ACCESS_TOKEN_EXPIRE_MINUTES)
    /\ UNCHANGED <<issued, store, nextId, call>>
    /\ UNCHANGED <<engineVars, concVars>>

Request(op, token) == [BaseCall EXCEPT !.op = op, !.at = now, !.token = token]

\* lines 154-156
get_templates(token) ==
    LET req == Request("get_templates", token)
        user == get_current_user(token, now)
    IN  /\ call' = IF ~user.ok THEN Unauthorized(req, user.detail)
                   ELSE [req EXCEPT !.status = 200,
                                    !.body = {Row(store, i) : i \in DOMAIN store}]
        /\ UNCHANGED <<now, issued, store, nextId>>
        /\ UNCHANGED <<engineVars, concVars>>

\* lines 158-168
create_template(token, template) ==
    LET req == [Request("create_template", token) EXCEPT
                    !.name = template.name, !.content = template.content]
        user == get_current_user(token, now)
        id == uuid4(nextId)
    IN  /\ nextId < MaxIds
        /\ IF ~user.ok
           THEN /\ call' = Unauthorized(req, user.detail)
                /\ UNCHANGED <<store, nextId>>
           ELSE /\ store' = WithRow(store, id, [name |-> template.name,
                                                content |-> template.content])
                /\ nextId' = nextId + 1
                /\ call' = [req EXCEPT !.status = 200, !.body = {Row(store', id)}]
        /\ UNCHANGED <<now, issued>>
        /\ UNCHANGED <<engineVars, concVars>>

\* lines 170-180
update_template(token, template_id, template) ==
    LET req == [Request("update_template", token) EXCEPT
                    !.id = template_id,
                    !.name = template.name, !.content = template.content]
        user == get_current_user(token, now)
    IN  /\ IF ~user.ok
           THEN /\ call' = Unauthorized(req, user.detail)
                /\ UNCHANGED store
           ELSE IF ~found(store, template_id)
           THEN /\ call' = NotFound(req)
                /\ UNCHANGED store
           ELSE /\ store' = WithRow(store, template_id,
                               assign_fields(store[template_id],
                                             template.name, template.content))
                /\ call' = [req EXCEPT !.status = 200,
                                       !.body = {Row(store', template_id)}]
        /\ UNCHANGED <<now, issued, nextId>>
        /\ UNCHANGED <<engineVars, concVars>>

\* lines 182-190
delete_template(token, template_id) ==
    LET req == [Request("delete_template", token) EXCEPT !.id = template_id]
        user == get_current_user(token, now)
    IN  /\ IF ~user.ok
           THEN /\ call' = Unauthorized(req, user.detail)
                /\ UNCHANGED store
           ELSE IF ~found(store, template_id)
           THEN /\ call' = NotFound(req)
                /\ UNCHANGED store
           ELSE /\ store' = WithoutRow(store, template_id)
                /\ call' = [req EXCEPT !.status = 200, !.detail = "Template deleted"]
        /\ UNCHANGED <<now, issued, nextId>>
        /\ UNCHANGED <<engineVars, concVars>>

\* lines 192-206
generate_html(token, request) ==
    LET req == [Request("generate_html", token) EXCEPT
                    !.template_content = request.template_content,
                    !.input_text = request.input_text]
        user == get_current_user(token, now)
        r == RenderFrom([html |-> request.template_content, count |-> 0],
                        parse_text_replacements(request.input_text), 1)
    IN  /\ call' = IF ~user.ok THEN Unauthorized(req, user.detail)
                   ELSE [req EXCEPT !.status = 200,
                                    !.generated_html = r.html,
                                    !.replacements_count = r.count]
        /\ UNCHANGED <<now, issued, store, nextId>>
        /\ UNCHANGED <<engineVars, concVars>>

Next ==
    \/ Elapse
    \/ \E token \in PresentedTokens : get_templates(token)
    \/ \E token \in PresentedTokens, t \in CreateInputs : create_template(token, t)
    \/ \E token \in PresentedTokens, i \in 1..MaxIds, t \in UpdateInputs :
          update_template(token, i, t)
    \/ \E token \in PresentedTokens, i \in 1..MaxIds : delete_template(token, i)
    \/ \E token \in PresentedTokens, g \in GenerationRequests : generate_html(token, g)

Spec == Init /\ [][Next]_vars

-----------------------------------------------------------------------------
(* SpecAuth: login and the guard as the clock runs                         *)

\* how many tokens login hands out
MaxLogins == 2

Usernames == {ADMIN_USERNAME_ENV, "guest"}

Passwords == {ADMIN_PASSWORD_ENV, "letmein"}

\* tokens signed with SECRET_KEY that login never returns, and a forged one
CraftedTokens ==
    { [AdminToken EXCEPT !.sub = "guest"],
      [AdminToken EXCEPT !.sub = "none"],
      [AdminToken EXCEPT !.sig = "invalid"] }

\* the clock runs on by one tick
Tick ==
    /\ now % timedelta(ACCESS_TOKEN_EXPIRE_MINUTES) < MaxTicks
    /\ now' = now + 1
    /\ UNCHANGED <<issued, store, nextId, call>>
    /\ UNCHANGED <<engineVars, concVars>>

\* lines 139-152
login_for_access_token(username, password) ==
    LET req == [BaseCall EXCEPT !.op = "login", !.at = now,
                                !.username = username, !.password = password]
        made == create_access_token(username,
                    timedelta(ACCESS_TOKEN_EXPIRE_MINUTES), now)
    IN  /\ Cardinality(issued) < MaxLogins
        /\ IF CredentialsRejected(username, password)
           THEN /\ call' = Unauthorized(req, "Incorrect username or password")
                /\ UNCHANGED issued
           ELSE /\ call' = [req EXCEPT !.status = 200,
                                       !.access_token = made.token,
                                       !.token_type = "bearer"]
                /\ issued' = issued \cup {made}
        /\ UNCHANGED <<now, store, nextId>>
        /\ UNCHANGED <<engineVars, concVars>>

NextAuth ==
    \/ Tick
    \/ Elapse
    \/ \E u \in Usernames, p \in Passwords : login_for_access_token(u, p)
    \/ \E token \in {r.token : r \in issued} \cup CraftedTokens : get_templates(token)

SpecAuth == Init /\ [][NextAuth]_vars

-----------------------------------------------------------------------------
(* SpecConc: store handlers running at the same time, each in a session of *)
(* its own: the lookup and the commit of a handler are separate steps      *)

\* how many requests are in flight
MaxRequests == 3

\* how many identifiers the requests in flight address
MaxTargets == 1

ConcRequests ==
    {[op |-> "create_template", id |-> 0, name |-> t.name, content |-> t.content,
      pc |-> "start", status |-> 0] : t \in CreateInputs}
    \cup
    {[op |-> "update_template", id |-> i, name |-> t.name, content |-> t.content,
      pc |-> "start", status |-> 0] : i \in 1..MaxTargets, t \in UpdateInputs}
    \cup
    {[op |-> "delete_template", id |-> i, name |-> "", content |-> "",
      pc |-> "start", status |-> 0] : i \in 1..MaxTargets}

InitConc ==
    /\ EngineIdle
    /\ now = 0
    /\ issued = {}
    /\ store = <<>>
    /\ nextId = 0
    /\ call = BaseCall
    /\ reqs \in [1..MaxRequests -> ConcRequests]

Finish(p, status) == reqs' = [reqs EXCEPT ![p].pc = "done", ![p].status = status]

\* lines 159-168 in one step: the row is added and committed
ConcCreate(p) ==
    /\ reqs[p].pc = "start"
    /\ reqs[p].op = "create_template"
    /\ get_current_user(AdminToken, now).ok
    /\ LET id == uuid4(nextId)
       IN  /\ store' = WithRow(store, id, [name |-> reqs[p].name,
                                           content |-> reqs[p].content])
           /\ nextId' = nextId + 1
           /\ reqs' = [reqs EXCEPT ![p].pc = "done", ![p].status = 200, ![p].id = id]
    /\ UNCHANGED <<now, issued, call>>
    /\ UNCHANGED engineVars

\* lines 172-174 and 184-186: the point lookup and the 404
ConcLookup(p) ==
    /\ reqs[p].pc = "start"
    /\ reqs[p].op \in {"update_template", "delete_template"}
    /\ get_current_user(AdminToken, now).ok
    /\ IF found(store, reqs[p].id)
       THEN reqs' = [reqs EXCEPT ![p].pc = "found"]
       ELSE Finish(p, 404)
    /\ UNCHANGED <<now, issued, store, nextId, call>>
    /\ UNCHANGED engineVars

\* lines 176-180: the UPDATE of the row looked up; when the row is gone the
\* UPDATE matches no row and the commit fails, the request ends in 500
ConcCommitUpdate(p) ==
    /\ reqs[p].pc = "found"
    /\ reqs[p].op = "update_template"
    /\ IF reqs[p].id \in DOMAIN store
       THEN /\ store' = WithRow(store, reqs[p].id,
                           assign_fields(store[reqs[p].id],
                                         reqs[p].name, reqs[p].content))
            /\ Finish(p, 200)
       ELSE /\ UNCHANGED store
            /\ Finish(p, 500)
    /\ UNCHANGED <<now, issued, nextId, call>>
    /\ UNCHANGED engineVars

\* lines 188-190: the DELETE of the row looked up; when the row is gone the
\* DELETE matches no row, the commit goes through and the answer is the same
ConcCommitDelete(p) ==
    /\ reqs[p].pc = "found"
    /\ reqs[p].op = "delete_template"
    /\ store' = WithoutRow(store, reqs[p].id)
    /\ Finish(p, 200)
    /\ UNCHANGED <<now, issued, nextId, call>>
    /\ UNCHANGED engineVars

NextConc ==
    \E p \in 1..MaxRequests :
        \/ ConcCreate(p)
        \/ ConcLookup(p)
        \/ ConcCommitUpdate(p)
        \/ ConcCommitDelete(p)

SpecConc == InitConc /\ [][NextConc]_vars

-----------------------------------------------------------------------------
(* Claims about the placeholder extractor (SpecParse)                      *)

\* the key lengths n for which the stripped line reads **<n characters>:**...
FormLens(line) ==
    {n \in 1..Len(line) :
        StartsWithAt(line, Open, 1) /\ StartsWithAt(line, Marker, 3 + n)}

HasForm(line) == FormLens(line) # {}

\* the text between the opening ** and the first :** that follows a key
TextOfKey(line) == SubSeq(line, 3, 2 + Min(FormLens(line)))

\* the remainder of the line after that marker, trimmed
TextOfValue(line) ==
    Strip(SubSeq(line, 3 + Min(FormLens(line)) + Len(Marker), Len(line)))

\* d2 is d with k -> v put in: k maps to v, every other entry is as before
PutIn(d, d2, k, v) ==
    /\ \E i \in 1..Len(d2) : d2[i] = [key |-> k, value |-> v]
    /\ \A i \in 1..Len(d2) : d2[i].key = k => d2[i].value = v
    /\ {d2[i] : i \in 1..Len(d2)} \ {[key |-> k, value |-> v]}
         = {e \in {d[i] : i \in 1..Len(d)} : e.key # k}

\* a parser step on a line.  With trimmed, the key of the line is the key
\* text without the whitespace around it; without, it is the key text as it
\* stands, and lines whose key text is blank are left aside.
LineContract(trimmed) ==
    (pc = "parse" /\ li' = li + 1) =>
        LET line == Strip(SplitLines(input_text)[li])
            key == IF trimmed THEN Strip(TextOfKey(line)) ELSE TextOfKey(line)
        IN  IF ~HasForm(line) THEN replacements' = replacements
            ELSE IF ~trimmed /\ Strip(TextOfKey(line)) = <<>> THEN TRUE
            ELSE IF key \in ignored_keys THEN replacements' = replacements
            ELSE PutIn(replacements, replacements', key, TextOfValue(line))

\* C4 as stated: the key of a line **<key>:**<value> is everything between
\* the opening ** and the literal :**; the pair key -> trimmed value is put
\* into the mapping unless the key is in the exclusion set; any other line
\* leaves the mapping as it is.  (Stated for the lines whose key text is not
\* blank; a blank key text is the subject of C10.)
C4_KeyIsEverythingBetween == [][LineContract(FALSE)]_vars

\* C4 amended: the key is the text between the opening ** and the first :**
\* that follows at least one character, with leading and trailing whitespace
\* removed; the exclusion test and the insertion use that trimmed key.
C4_KeyIsTrimmed == [][LineContract(TRUE)]_vars

\* C4 witness: a line whose key text has whitespace around it has been parsed
\* and its trimmed key is in the mapping with a non-empty value
C4_Witness ==
    /\ li > 1
    /\ LET line == Strip(SplitLines(input_text)[li - 1])
       IN  /\ HasForm(line)
           /\ TextOfKey(line) # Strip(TextOfKey(line))
           /\ TextOfValue(line) # <<>>
           /\ \E i \in 1..Len(replacements) :
                 replacements[i] = [key |-> Strip(TextOfKey(line)),
                                    value |-> TextOfValue(line)]

-----------------------------------------------------------------------------
(* Claims about generate_html (SpecGen)                                    *)

Occurrences(s, k) == {i \in 1..(Len(s) + 1) : StartsWithAt(s, k, i)}

\* the occurrences that get replaced: no two overlap, and an occurrence left
\* out overlaps a replaced one that starts before it
ReplacedAt(s, k) ==
    CHOOSE P \in SUBSET Occurrences(s, k) :
        /\ \A p, q \in P : p < q => p + Len(k) <= q
        /\ \A i \in Occurrences(s, k) \ P : \E p \in P : p < i /\ i < p + Len(k)

RECURSIVE Concat(_, _, _)
Concat(f, i, n) == IF i > n THEN <<>> ELSE f[i] \o Concat(f, i + 1, n)

\* s with every occurrence of k replaced by v
AllReplaced(s, k, v) ==
    LET P == ReplacedAt(s, k)
        piece == [i \in 1..(Len(s) + 1) |->
                    (IF i \in P THEN v ELSE <<>>) \o
                    (IF i <= Len(s) /\ ~(\E p \in P : p <= i /\ i < p + Len(k))
                     THEN <<s[i]>> ELSE <<>>)]
    IN  Concat(piece, 1, Len(s) + 1)

C3_Step ==
    (pc = "render" /\ gi' = gi + 1) =>
        LET e == replacements[gi]
        IN  IF Occurrences(html_content, e.key) # {}
            THEN /\ html_content' = AllReplaced(html_content, e.key, e.value)
                 /\ count' = count + 1
            ELSE /\ html_content' = html_content
                 /\ count' = count

C3_Chain ==
    (pc = "render" /\ pc' = "done") =>
        /\ count <= Len(replacements)
        /\ ( /\ Len(replacements) = 2
             /\ replacements[1].key = template_content
             /\ replacements[2].key = replacements[1].value )
           => (html_content = replacements[2].value /\ count = 2)

\* C3: generate_html takes the mapping entries one at a time in insertion
\* order against the body as substituted so far; an entry whose key occurs
\* replaces every occurrence and adds exactly one to the counter, any other
\* entry changes nothing; a mapping a -> b, b -> c applied to the body a gives
\* c with a count of 2.
C3_SequentialSubstitution == [][C3_Step /\ C3_Chain]_vars

\* C3 witness: the chain B -> C, C -> D has turned the body "B" into "D"
C3_Witness ==
    /\ pc = "done"
    /\ template_content = <<"B">>
    /\ Len(replacements) = 2
    /\ replacements[1] = [key |-> <<"B">>, value |-> <<"C">>]
    /\ replacements[2] = [key |-> <<"C">>, value |-> <<"D">>]
    /\ html_content = <<"D">>
    /\ count = 2

\* what each line of the input contributes: whether it matches with a key
\* outside the exclusion set, and its trimmed key and value
LineInfo(text) ==
    LET lines == SplitLines(text)
    IN  [i \in 1..Len(lines) |->
            LET m == re_search(Strip(lines[i]))
            IN  [counts |-> m.matched /\ Strip(m.g1) \notin ignored_keys,
                 key |-> Strip(m.g1),
                 value |-> Strip(m.g2)]]

LinesOf(info, k) == {i \in 1..Len(info) : info[i].counts /\ info[i].key = k}

FirstLine(info, k) == Min(LinesOf(info, k))

LastLine(info, k) == Max(LinesOf(info, k))

InputKeys(info) == {info[i].key : i \in {j \in 1..Len(info) : info[j].counts}}

\* the key whose first line is the j-th among the first lines of all keys
KeyInTurn(info, j) ==
    CHOOSE k \in InputKeys(info) :
        Cardinality({k2 \in InputKeys(info) :
                        FirstLine(info, k2) < FirstLine(info, k)}) = j - 1

\* the body after the keys j..n have been applied, each in the turn of its
\* first line and with the value of its last line
RECURSIVE RenderInTurn(_, _, _, _)
RenderInTurn(info, r, j, n) ==
    IF j > n THEN r
    ELSE LET k == KeyInTurn(info, j)
         IN  RenderInTurn(info,
                 ApplyEntry(r.html, r.count,
                            [key |-> k, value |-> info[LastLine(info, k)].value]),
                 j + 1, n)

\* C5: the mapping holds each key once, in the order of the keys' first
\* matching lines, with the value of the key's last matching line, and
\* generate_html applies the keys in that order with those values.
C5_FirstPlaceLastValue ==
    pc \in {"render", "done"} =>
        LET info == LineInfo(input_text)
        IN  /\ {replacements[j].key : j \in 1..Len(replacements)} = InputKeys(info)
            /\ \A a, b \in 1..Len(replacements) :
                  a < b => FirstLine(info, replacements[a].key)
                             < FirstLine(info, replacements[b].key)
            /\ \A a \in 1..Len(replacements) :
                  replacements[a].value
                    = info[LastLine(info, replacements[a].key)].value
            /\ pc = "done" =>
                  LET r == RenderInTurn(info,
                               [html |-> template_content, count |-> 0],
                               1, Cardinality(InputKeys(info)))
                  IN  html_content = r.html /\ count = r.count

\* C5 witness: a key written on two lines with different values, another key
\* first written between them, and the key applied to the template
C5_Witness ==
    /\ pc = "done"
    /\ count >= 1
    /\ LET info == LineInfo(input_text)
       IN  \E k \in InputKeys(info), k2 \in InputKeys(info) :
              /\ FirstLine(info, k) < FirstLine(info, k2)
              /\ FirstLine(info, k2) < LastLine(info, k)
              /\ info[FirstLine(info, k)].value # info[LastLine(info, k)].value
              /\ Contains(template_content, k)
              /\ ~Contains(template_content, k2)
              /\ html_content
                   = Replace(template_content, k, info[LastLine(info, k)].value)

\* C10: every key of the mapping returned by parse_text_replacements is a
\* non-empty string, so generate_html never applies an empty key, and a
\* template that contains none of the extracted names comes back unchanged
\* with replacements_count = 0.
C10_KeysAreNonEmpty ==
    /\ pc \in {"render", "done"} =>
          \A j \in 1..Len(replacements) : replacements[j].key # <<>>
    /\ ( /\ pc = "done"
         /\ \A j \in 1..Len(replacements) :
               replacements[j].key # <<>> => ~Contains(template_content, replacements[j].key) )
       => (html_content = template_content /\ count = 0)

-----------------------------------------------------------------------------
(* Claims about the guard and the store (Spec)                             *)

ProtectedOps ==
    {"get_templates", "create_template", "update_template", "delete_template",
     "generate_html"}

\* the token is signed with the secret, names the administrator and its exp
\* is not before the whole second t lies in
Admissible(token, t) ==
    /\ token.sig = "valid"
    /\ token.sub = "admin"
    /\ t < (token.exp + 1) * TicksPerSecond

\* C1: none of the five protected operations takes effect or returns a result
\* unless the guard accepted the bearer token presented with that call; a
\* call whose token is rejected ends in 401 and leaves the stored templates
\* as they were.
C1_GuardFirst ==
    [][ /\ (store' # store) =>
              (call'.op \in ProtectedOps /\ Admissible(call'.token, now))
        /\ (call' # call /\ call'.op \in ProtectedOps) =>
              /\ call'.at = now
              /\ call'.status # 401 => Admissible(call'.token, now)
              /\ ~Admissible(call'.token, now) =>
                    /\ call'.status = 401
                    /\ call'.body = {}
                    /\ call'.generated_html = <<>>
                    /\ store' = store ]_vars

\* C1 witness: a delete of a stored template, presented with the expired
\* administrator token, was answered 401 and the template is still stored
C1_Witness ==
    /\ call.op = "delete_template"
    /\ call.status = 401
    /\ call.token = AdminToken
    /\ call.id \in DOMAIN store

C6_Step ==
    (call' # call) =>
        /\ (call'.op = "create_template" /\ Admissible(call'.token, now)) =>
              /\ call'.status = 200
              /\ \E r \in call'.body :
                    /\ call'.body = {r}
                    /\ r.id \notin DOMAIN store
                    /\ r.name = call'.name
                    /\ r.content = call'.content
                    /\ DOMAIN store' = DOMAIN store \cup {r.id}
                    /\ store'[r.id] = [name |-> call'.name, content |-> call'.content]
                    /\ \A j \in DOMAIN store : store'[j] = store[j]
        /\ (call'.op = "update_template" /\ call'.status = 200) =>
              /\ call'.body = {[id |-> call'.id, name |-> call'.name,
                                content |-> call'.content]}
              /\ DOMAIN store' = DOMAIN store
              /\ store'[call'.id] = [name |-> call'.name, content |-> call'.content]
              /\ \A j \in DOMAIN store \ {call'.id} : store'[j] = store[j]
        /\ (call'.op = "get_templates" /\ call'.status = 200) =>
              /\ store' = store
              /\ \A r \in call'.body : r.id \in DOMAIN store
              /\ \A i \in DOMAIN store :
                    {r \in call'.body : r.id = i}
                      = {[id |-> i, name |-> store[i].name,
                          content |-> store[i].content]}

\* C6: an authenticated Create returns a fresh identifier and stores the
\* record under it; an Update of that identifier returns the record with the
\* same identifier and the new name and content, stores them, and leaves
\* every other record and the set of identifiers as they were; a read shows
\* exactly one record per stored identifier with the stored name and content.
\* So Create, Update, read of one identifier returns the updated name and
\* content under the unchanged identifier, whatever is done to other
\* identifiers in between.
C6_CreateUpdateRead == [][C6_Step]_vars

\* C6 witness: a read shows two templates; one is as created, the other
\* holds a name and content that only an update writes
C6_Witness ==
    /\ call.op = "get_templates"
    /\ call.status = 200
    /\ \E r1 \in call.body, r2 \in call.body :
          /\ r1.id # r2.id
          /\ [name |-> r1.name, content |-> r1.content] \in UpdateInputs
          /\ [name |-> r2.name, content |-> r2.content] \in CreateInputs

C7_Step ==
    /\ \A i \in 1..nextId : i \notin DOMAIN store => i \notin DOMAIN store'
    /\ (call' # call) =>
          /\ ( /\ call'.op \in {"update_template", "delete_template"}
               /\ Admissible(call'.token, now)
               /\ call'.id \notin DOMAIN store ) =>
                 (call'.status = 404 /\ store' = store)
          /\ ( /\ call'.op = "delete_template"
               /\ Admissible(call'.token, now)
               /\ call'.id \in DOMAIN store ) =>
                 /\ call'.status = 200
                 /\ DOMAIN store' = DOMAIN store \ {call'.id}
                 /\ \A j \in DOMAIN store' : store'[j] = store[j]
          /\ (call'.op = "get_templates" /\ call'.status = 200) =>
                 \A r \in call'.body : r.id \in DOMAIN store

\* C7: an authenticated Update or Delete of an identifier that is not stored
\* ends in 404 and changes nothing; a Delete of a stored identifier removes
\* that record and no other; from then on the identifier stays absent, for
\* updates, deletes and reads alike.
C7_NotFoundAndDelete == [][C7_Step]_vars

\* C7 witness: an update of an identifier that was created and deleted
\* earlier was answered 404 while another template is stored
C7_Witness ==
    /\ call.op = "update_template"
    /\ call.status = 404
    /\ call.id \in 1..nextId
    /\ store # <<>>

-----------------------------------------------------------------------------
(* Claims about login and token expiry (SpecAuth)                          *)

AnHour == 60 * 60 * TicksPerSecond

C8_Step ==
    /\ (issued' # issued) => (call'.op = "login" /\ call'.status = 200)
    /\ (call' # call /\ call'.op = "login") =>
          IF call'.username = "admin" /\ call'.password = "password123"
          THEN /\ call'.status = 200
               /\ call'.token_type = "bearer"
               /\ call'.access_token.sig = "valid"
               /\ call'.access_token.sub = call'.username
               /\ \E r \in issued' :
                     /\ r.token = call'.access_token
                     /\ r.iat = now
                     /\ r.expire = now + 24 * AnHour
                     /\ r.token.exp * TicksPerSecond <= r.expire
                     /\ r.expire < (r.token.exp + 1) * TicksPerSecond
          ELSE /\ [call' EXCEPT !.username = "", !.password = "", !.at = 0]
                    = [BaseCall EXCEPT !.op = "login", !.status = 401,
                           !.detail = "Incorrect username or password"]
               /\ issued' = issued

\* C8: login issues a token if and only if identity and secret both equal the
\* configured pair; the token's subject is the submitted identity and its
\* expiry is the issue time plus 24 hours (carried in the token in whole
\* seconds); every mismatch gets the same 401 response and no token.
C8_LoginIffBothMatch == [][C8_Step]_vars

\* C8 witness: after a token was issued, a login with the right identity and
\* a wrong secret was answered 401
C8_Witness ==
    /\ issued # {}
    /\ call.op = "login"
    /\ call.status = 401
    /\ call.username = "admin"
    /\ call.password # "password123"

Guarded == call.op \in ProtectedOps

\* a correctly signed token whose subject is absent or another identity is
\* rejected whenever it is presented
OtherSubjectRejected ==
    (Guarded /\ call.token.sig = "valid" /\ call.token.sub # "admin") =>
        call.status = 401

\* C2 as stated: a token issued by login is accepted at every time strictly
\* before its expiry and rejected at every time after its expiry; a signed
\* token with no subject or another subject is always rejected.
C2_RejectedAfterExpiry ==
    /\ \A r \in issued :
          (Guarded /\ call.token = r.token) =>
              /\ call.at < r.expire => call.status = 200
              /\ call.at > r.expire => call.status = 401
    /\ OtherSubjectRejected

\* C2 amended: a token issued by login is accepted at every time strictly
\* before its expiry and rejected at every time one second or more after its
\* expiry (the guard compares whole seconds, so inside the second that
\* follows the expiry the token still passes); a signed token with no
\* subject or another subject is always rejected.
C2_RejectedOneSecondAfterExpiry ==
    /\ \A r \in issued :
          (Guarded /\ call.token = r.token) =>
              /\ call.at < r.expire => call.status = 200
              /\ call.at >= r.expire + TicksPerSecond => call.status = 401
    /\ OtherSubjectRejected

\* C2 witness: a token login issued was presented a second or more after its
\* expiry and rejected
C2_Witness ==
    /\ Guarded
    /\ call.status = 401
    /\ \E r \in issued :
          /\ call.token = r.token
          /\ r.iat > 0
          /\ call.at >= r.expire + TicksPerSecond

-----------------------------------------------------------------------------
(* Claim about concurrent store requests (SpecConc)                        *)

Done(p) == reqs[p].pc = "done"

\* C9: when Create, Update and Delete requests run concurrently, each as a
\* lookup followed by a separate commit, requests on one identifier behave as
\* if run one after the other: every Update and Delete ends in success or in
\* NotFound, never in another error, and an identifier is deleted
\* successfully at most once.
C9_AsIfSerial ==
    /\ \A p \in DOMAIN reqs :
          (Done(p) /\ reqs[p].op \in {"update_template", "delete_template"})
              => reqs[p].status \in {200, 404}
    /\ \A i \in 1..MaxTargets :
          Cardinality({p \in DOMAIN reqs :
                          /\ Done(p)
                          /\ reqs[p].op = "delete_template"
                          /\ reqs[p].id = i
                          /\ reqs[p].status = 200}) <= 1

=============================================================================
